---- MODULE Spec2Model ----
(***************************************************************************)
(* A model of the reversible_transforms package: the Split tank            *)
(* (tanks/split.py), the Max tank as exercised by tanks/unit_test,         *)
(* and the Transform / NumTransform pipeline builders (transforms/).       *)
(*                                                                         *)
(* Arrays are records [shape, data]: shape is <<n>> or <<r, c>>, data the  *)
(* elements in row-major order.  Strings that the code slices or joins are *)
(* sequences of one-character strings.                                     *)
(***************************************************************************)
EXTENDS Integers, Sequences, FiniteSets, TLC

VARIABLES
  tank_pc,      \* position of the tank exercise: "slots", "tubes", "poured", "pumped", "raised"
  tank_slots,   \* the slot values handed to _pour
  tank_tubes,   \* the tube values _pour returned, or the ones handed to _pump
  tank_back,    \* the slot values _pump returned
  pre_pc,       \* position of the prefix exercise: "start", "prefixed", "stripped"
  pre_in,       \* the prefix, the transform's name and the boundary dictionary (or string)
  pre_out,      \* what _pre returned
  pre_back,     \* what _nopre returned for it
  tf,           \* the NumTransform object: its attributes and its cached waterwork
  heap,         \* the Waterwork objects built so far, in the order they were built
  last,         \* the last call on the transform and how it ended
  taps,         \* the input and the outputs of the last pour that returned
  n_define,     \* how many times define_waterwork has run
  callers       \* the threads calling pour and pump on one transform, each with its locals

tankVars == <<tank_pc, tank_slots, tank_tubes, tank_back>>
preVars == <<pre_pc, pre_in, pre_out, pre_back>>
tfVars == <<tf, heap, last, taps, n_define>>
callVars == <<callers>>
vars == <<tankVars, preVars, tfVars, callVars>>

(***************************************************************************)
(* Bounds of the model.                                                    *)
(***************************************************************************)
MaxLen == 3        \* longest 1-D array
MaxDim == 2        \* largest extent of a 2-D array along either axis
MaxIdxLen == 2     \* longest list of split indices

Elems == {0, 1}
Axes == -2 .. 2

(***************************************************************************)
(* The parts of the state a specification does not exercise stay idle.     *)
(***************************************************************************)
NoPre == [isdict |-> FALSE, entries |-> <<>>, s |-> <<>>]
PreIdle ==
  /\ pre_pc = "idle"
  /\ pre_in = [prefix |-> <<>>, name |-> <<>>, d |-> NoPre]
  /\ pre_out = NoPre
  /\ pre_back = NoPre

TfIdle ==
  /\ callers = <<>>
  /\ tf = "idle"
  /\ heap = <<>>
  /\ last = "idle"
  /\ taps = "idle"
  /\ n_define = 0

(***************************************************************************)
(* numpy arrays.                                                           *)
(***************************************************************************)
Arr1(data) == [shape |-> <<Len(data)>>, data |-> data]
Arr2(r, c, data) == [shape |-> <<r, c>>, data |-> data]

\* np.arange(r * c).reshape((r, c))
Ramp(r, c) == Arr2(r, c, [k \in 1 .. r * c |-> k - 1])

SeqsUpTo(S, n) == UNION {[1 .. k -> S] : k \in 0 .. n}

Arrays1 == {Arr1(d) : d \in SeqsUpTo(Elems, MaxLen)}
Arrays2 == {Ramp(r, c) : r \in 1 .. MaxDim, c \in 1 .. MaxDim}
Arrays == Arrays1 \cup Arrays2

NDim(a) == Len(a.shape)
\* a negative axis counts from the last one
NormAxis(a, axis) == IF axis < 0 THEN axis + NDim(a) ELSE axis
ValidAxis(a, axis) == NormAxis(a, axis) \in 0 .. NDim(a) - 1
AxisLen(a, axis) == a.shape[NormAxis(a, axis) + 1]

\* Python's slice bound: negative counts from the end, then clamped to 0 .. n
SliceBound(i, n) ==
  IF i < 0 THEN (IF i + n < 0 THEN 0 ELSE i + n)
  ELSE (IF i > n THEN n ELSE i)

\* swapaxes(swapaxes(a, axis, 0)[st:end], axis, 0)
TakeAxis(a, axis, st, end) ==
  LET n  == AxisLen(a, axis)
      lo == SliceBound(st, n)
      e  == SliceBound(end, n)
      hi == IF e < lo THEN lo ELSE e
      w  == hi - lo
  IN IF NDim(a) = 1
       THEN Arr1(SubSeq(a.data, lo + 1, hi))
     ELSE LET r == a.shape[1]
              c == a.shape[2]
          IN IF NormAxis(a, axis) = 0
               THEN Arr2(w, c, SubSeq(a.data, lo * c + 1, hi * c))
             ELSE Arr2(r, w, [k \in 1 .. r * w |->
                       a.data[((k - 1) \div w) * c + lo + ((k - 1) % w) + 1]])

\* the split indices: a list of indices, or an integer number of sections
IdxList(l) == [kind |-> "list", list |-> l, n |-> 0]
IdxInt(n) == [kind |-> "int", list |-> <<>>, n |-> n]

Raised(what) == [ok |-> FALSE, err |-> what, val |-> <<>>]
Returned(v) == [ok |-> TRUE, err |-> "", val |-> v]

\* numpy.split(ary, indices_or_sections, axis)
np_split(a, ios, axis) ==
  IF ~ValidAxis(a, axis) THEN Raised("IndexError")
  ELSE
    LET N == AxisLen(a, axis)
    IN IF ios.kind = "int" /\ ios.n = 0 THEN Raised("ZeroDivisionError")
       ELSE IF ios.kind = "int" /\ N % ios.n # 0 THEN Raised("ValueError")
       ELSE
         LET div_points ==
               IF ios.kind = "list"
                 THEN <<0>> \o ios.list \o <<N>>
               ELSE [i \in 1 .. ios.n + 1 |-> (i - 1) * (N \div ios.n)]
             Nsections == Len(div_points) - 1
         IN Returned([i \in 1 .. Nsections |->
                        TakeAxis(a, axis, div_points[i], div_points[i + 1])])

RECURSIVE FlatCat(_)
FlatCat(ss) == IF ss = <<>> THEN <<>> ELSE Head(ss) \o FlatCat(Tail(ss))

RECURSIVE SumSeq(_)
SumSeq(ss) == IF ss = <<>> THEN 0 ELSE Head(ss) + SumSeq(Tail(ss))

Row(a, i) == SubSeq(a.data, (i - 1) * a.shape[2] + 1, i * a.shape[2])

\* numpy.concatenate(arrays, axis)
np_concatenate(arrs, axis) ==
  IF arrs = <<>> THEN Raised("ValueError")
  ELSE IF \E i \in 1 .. Len(arrs) : NDim(arrs[i]) # NDim(arrs[1])
    THEN Raised("ValueError")
  ELSE IF ~ValidAxis(arrs[1], axis) THEN Raised("IndexError")
  ELSE
    LET ax == NormAxis(arrs[1], axis)
        nd == NDim(arrs[1])
    IN IF nd = 1
         THEN Returned(Arr1(FlatCat([i \in 1 .. Len(arrs) |-> arrs[i].data])))
       ELSE IF ax = 0
         THEN IF \E i \in 1 .. Len(arrs) : arrs[i].shape[2] # arrs[1].shape[2]
                THEN Raised("ValueError")
              ELSE Returned(Arr2(SumSeq([i \in 1 .. Len(arrs) |-> arrs[i].shape[1]]),
                                 arrs[1].shape[2],
                                 FlatCat([i \in 1 .. Len(arrs) |-> arrs[i].data])))
       ELSE IF \E i \in 1 .. Len(arrs) : arrs[i].shape[1] # arrs[1].shape[1]
                THEN Raised("ValueError")
              ELSE LET r == arrs[1].shape[1]
                   IN Returned(Arr2(r,
                                    SumSeq([i \in 1 .. Len(arrs) |-> arrs[i].shape[2]]),
                                    FlatCat([j \in 1 .. r |->
                                      FlatCat([i \in 1 .. Len(arrs) |-> Row(arrs[i], j)])])))

(***************************************************************************)
(* The Split tank.                                                         *)
(***************************************************************************)
EmptyArr == Arr1(<<>>)
NoSlots == [given |-> FALSE, ok |-> FALSE, a |-> EmptyArr, indices |-> IdxList(<<>>), axis |-> 0]
NoTubes == [given |-> FALSE, ok |-> FALSE, target |-> <<>>, indices |-> IdxList(<<>>), axis |-> 0]

\* mutant: the axis tube is recomputed as the normalised axis
Split_pour_normaxis(a, indices, axis) ==
  LET parts == np_split(a, indices, axis)
  IN [given |-> FALSE, ok |-> parts.ok, target |-> parts.val,
      indices |-> indices, axis |-> IF parts.ok THEN NormAxis(a, axis) ELSE axis]

Split_pour(a, indices, axis) ==
  LET parts == np_split(a, indices, axis)
  IN [given |-> FALSE, ok |-> parts.ok, target |-> parts.val,
      indices |-> indices, axis |-> axis]

\* mutant: the parts are concatenated along the default axis
Split_pump_axis0(target, indices, axis) ==
  LET a == np_concatenate(target, 0)
  IN [given |-> FALSE, ok |-> a.ok, a |-> IF a.ok THEN a.val ELSE EmptyArr,
      indices |-> indices, axis |-> axis]

Split_pump(target, indices, axis) ==
  LET a == np_concatenate(target, axis)
  IN [given |-> FALSE, ok |-> a.ok, a |-> IF a.ok THEN a.val ELSE EmptyArr,
      indices |-> indices, axis |-> axis]

IdxRange == -1 .. MaxLen + 1
Indices == {IdxList(l) : l \in SeqsUpTo(IdxRange, MaxIdxLen)}
             \cup {IdxInt(n) : n \in 0 .. MaxLen}

\* tubes handed to _pump by a caller that did not pour them
GivenParts == {Arr1(<<>>), Arr1(<<0>>), Arr1(<<1, 0>>), Ramp(1, 2), Ramp(2, 2), Ramp(2, 1)}
GivenTargets == SeqsUpTo(GivenParts, 2)

SplitInit ==
  \/ /\ tank_pc = "slots"
     /\ PreIdle
     /\ TfIdle
     /\ \E a \in Arrays, i \in Indices, x \in Axes :
          tank_slots = [given |-> TRUE, ok |-> TRUE, a |-> a, indices |-> i, axis |-> x]
     /\ tank_tubes = NoTubes
     /\ tank_back = NoSlots
  \/ /\ tank_pc = "tubes"
     /\ PreIdle
     /\ TfIdle
     /\ tank_slots = NoSlots
     /\ \E t \in GivenTargets, i \in Indices, x \in Axes :
          tank_tubes = [given |-> TRUE, ok |-> TRUE, target |-> t, indices |-> i, axis |-> x]
     /\ tank_back = NoSlots

SplitPour ==
  /\ tank_pc = "slots"
  /\ tank_tubes' = Split_pour(tank_slots.a, tank_slots.indices, tank_slots.axis)
  /\ tank_pc' = IF tank_tubes'.ok THEN "poured" ELSE "raised"
  /\ UNCHANGED <<tank_slots, tank_back, preVars, tfVars, callVars>>

SplitPump ==
  /\ tank_pc \in {"poured", "tubes"}
  /\ tank_back' = Split_pump(tank_tubes.target, tank_tubes.indices, tank_tubes.axis)
  /\ tank_pc' = IF tank_back'.ok THEN "pumped" ELSE "raised"
  /\ UNCHANGED <<tank_slots, tank_tubes, preVars, tfVars, callVars>>

SplitNext == SplitPour \/ SplitPump

SpecSplit == SplitInit /\ [][SplitNext]_vars

(***************************************************************************)
(* The Max tank (tanks/max.py), as tanks/unit_test/test_max.py uses it:    *)
(* the maximum over an axis, the original array carried along.             *)
(***************************************************************************)
\* the axis of a reduction: one axis, a tuple of axes, or None (all of them)
AxInt(i) == [kind |-> "int", axes |-> {i}]
AxTuple(S) == [kind |-> "tuple", axes |-> S]
AxNone == [kind |-> "none", axes |-> {}]

RECURSIVE Prod(_)
Prod(ss) == IF ss = <<>> THEN 1 ELSE Head(ss) * Prod(Tail(ss))

\* np.arange(n).reshape(shape)
Arange(shape) == [shape |-> shape, data |-> [k \in 1 .. Prod(shape) |-> k - 1]]

\* the i-th coordinate of the element at flat (row-major, 0-based) position k
Coord(shape, k, i) == (k \div Prod(SubSeq(shape, i + 1, Len(shape)))) % shape[i]

RECURSIVE SelectDims(_, _, _)
\* the entries of ss at the dimensions i .. Len(ss) that are in keep
SelectDims(ss, keep, i) ==
  IF i > Len(ss) THEN <<>>
  ELSE (IF i \in keep THEN <<ss[i]>> ELSE <<>>) \o SelectDims(ss, keep, i + 1)

RECURSIVE FlatIndex(_, _)
\* the flat position of the element at coordinates cs in an array of this shape
FlatIndex(shape, cs) ==
  IF shape = <<>> THEN 0
  ELSE Head(cs) * Prod(Tail(shape)) + FlatIndex(Tail(shape), Tail(cs))

\* the dimensions (1-based) a reduction over ax removes
ReducedDims(a, ax) ==
  IF ax.kind = "none" THEN 1 .. NDim(a)
  ELSE {NormAxis(a, i) + 1 : i \in ax.axes}

ValidAxes(a, ax) == \A i \in ax.axes : ValidAxis(a, i)

KeptDims(a, ax) == (1 .. NDim(a)) \ ReducedDims(a, ax)

\* where the element at flat position k of a goes in the reduced array
OutIndex(a, ax, k) ==
  LET keep == KeptDims(a, ax)
  IN FlatIndex(SelectDims(a.shape, keep, 1),
               SelectDims([i \in 1 .. NDim(a) |-> Coord(a.shape, k, i)], keep, 1))

SetMax(S) == CHOOSE m \in S : \A x \in S : x <= m

\* numpy.max(a, axis)
np_max(a, ax) ==
  IF ~ValidAxes(a, ax) THEN Raised("IndexError")
  ELSE IF Cardinality(ReducedDims(a, ax)) # Cardinality(ax.axes) /\ ax.kind = "tuple"
    THEN Raised("ValueError")       \* duplicate value in 'axis'
  ELSE IF a.data = <<>> THEN Raised("ValueError")
  ELSE
    LET oshape == SelectDims(a.shape, KeptDims(a, ax), 1)
    IN Returned([shape |-> oshape,
                 data |-> [j \in 1 .. Prod(oshape) |->
                   SetMax({a.data[k] : k \in {q \in 1 .. Len(a.data) :
                                               OutIndex(a, ax, q - 1) = j - 1}})]])

NoMaxSlots == [given |-> FALSE, ok |-> FALSE, a |-> EmptyArr, axis |-> AxNone]
NoMaxTubes == [given |-> FALSE, ok |-> FALSE, target |-> EmptyArr, a |-> EmptyArr, axis |-> AxNone]

\* mutant: the carried array is dropped, pump rebuilds 'a' from the maxima
Max_pump_from_target(target, a, axis) ==
  [given |-> FALSE, ok |-> TRUE, a |-> target, axis |-> axis]

Max_pump(target, a, axis) ==
  [given |-> FALSE, ok |-> TRUE, a |-> a, axis |-> axis]

Max_pour(a, axis) ==
  LET m == np_max(a, axis)
  IN [given |-> FALSE, ok |-> m.ok, target |-> IF m.ok THEN m.val ELSE EmptyArr,
      a |-> a, axis |-> axis]

\* the array of test_two_d
TwoD == Arr2(4, 2, <<0, 1, 2, 3, 4, 5, 1, 0>>)
Shapes3 == {<<i, j, k>> : i \in 1 .. MaxDim, j \in 1 .. MaxDim, k \in 1 .. MaxDim}
MaxArrays == (Arrays1 \ {EmptyArr}) \cup Arrays2 \cup {TwoD}
               \cup {Arange(sh) : sh \in Shapes3}
MaxAxes == {AxNone} \cup {AxInt(i) : i \in -1 .. 2}
             \cup {AxTuple(S) : S \in {{0, 1}, {0, 2}, {1, 2}, {-1, 0}}}

MaxInit ==
  /\ PreIdle
  /\ TfIdle
  /\ tank_pc = "slots"
  /\ \E a \in MaxArrays, x \in MaxAxes :
       tank_slots = [given |-> TRUE, ok |-> TRUE, a |-> a, axis |-> x]
  /\ tank_tubes = NoMaxTubes
  /\ tank_back = NoMaxSlots

MaxPour ==
  /\ tank_pc = "slots"
  /\ tank_tubes' = Max_pour(tank_slots.a, tank_slots.axis)
  /\ tank_pc' = IF tank_tubes'.ok THEN "poured" ELSE "raised"
  /\ UNCHANGED <<tank_slots, tank_back, preVars, tfVars, callVars>>

MaxPump ==
  /\ tank_pc = "poured"
  /\ tank_back' = Max_pump(tank_tubes.target, tank_tubes.a, tank_tubes.axis)
  /\ tank_pc' = "pumped"
  /\ UNCHANGED <<tank_slots, tank_tubes, preVars, tfVars, callVars>>

MaxNext == MaxPour \/ MaxPump

SpecMax == MaxInit /\ [][MaxNext]_vars

(***************************************************************************)
(* Transform._pre and Transform._nopre: prefixing and stripping the keys   *)
(* of a boundary dictionary.  A string is a sequence of characters; a      *)
(* dictionary is the sequence of its <<key, value>> entries in iteration   *)
(* order; a key is a string, a (string, x) tuple or another object.        *)
(***************************************************************************)
StrKey(str) == [kind |-> "str", s |-> str, x |-> 0]
TupleKey(str, x) == [kind |-> "tuple", s |-> str, x |-> x]
ObjKey(x) == [kind |-> "obj", s |-> <<>>, x |-> x]

\* posixpath.join of two components
join2(path, b) ==
  IF b # <<>> /\ b[1] = "/" THEN b
  ELSE IF path = <<>> \/ path[Len(path)] = "/" THEN path \o b
  ELSE path \o <<"/">> \o b

\* os.path.join(a, b) and os.path.join(a, b, c)
os_path_join2(a, b) == join2(a, b)
os_path_join3(a, b, c) == join2(join2(a, b), c)

\* r_d[k] = v
RECURSIVE DictSet(_, _, _)
DictSet(r_d, k, v) ==
  IF r_d = <<>> THEN <<<<k, v>>>>
  ELSE IF Head(r_d)[1] = k THEN <<<<k, v>>>> \o Tail(r_d)
  ELSE <<Head(r_d)>> \o DictSet(Tail(r_d), k, v)

Key_pre(key, prefix, name) ==
  IF key.kind = "tuple" THEN TupleKey(os_path_join3(prefix, name, key.s), key.x)
  ELSE IF key.kind = "str" THEN StrKey(os_path_join3(prefix, name, key.s))
  ELSE key

RECURSIVE Dict_pre(_, _, _, _)
\* the loop of _pre over the entries of d, r_d being built
Dict_pre(entries, r_d, prefix, name) ==
  IF entries = <<>> THEN r_d
  ELSE Dict_pre(Tail(entries),
                DictSet(r_d, Key_pre(Head(entries)[1], prefix, name), Head(entries)[2]),
                prefix, name)

Transform_pre(d, prefix, name) ==
  IF ~d.isdict
    THEN [isdict |-> FALSE, entries |-> <<>>, s |-> os_path_join3(prefix, name, d.s)]
  ELSE [isdict |-> TRUE, entries |-> Dict_pre(d.entries, <<>>, prefix, name), s |-> <<>>]

\* str[n:]
StrFrom(str, n) == SubSeq(str, n + 1, Len(str))

nopre_str_len(prefix, name) ==
  LET str_len == Len(os_path_join2(prefix, name) \o <<"/">>)
  IN IF str_len = 1 THEN 0 ELSE str_len

Key_nopre(key, str_len) ==
  IF key.kind = "tuple" THEN TupleKey(StrFrom(key.s, str_len), key.x)
  ELSE IF key.kind = "str" THEN StrKey(StrFrom(key.s, str_len))
  ELSE key

RECURSIVE Dict_nopre(_, _, _)
Dict_nopre(entries, r_d, str_len) ==
  IF entries = <<>> THEN r_d
  ELSE Dict_nopre(Tail(entries),
                  DictSet(r_d, Key_nopre(Head(entries)[1], str_len), Head(entries)[2]),
                  str_len)

Transform_nopre(d, prefix, name) ==
  LET str_len == nopre_str_len(prefix, name)
  IN IF ~d.isdict
       THEN [isdict |-> FALSE, entries |-> <<>>, s |-> StrFrom(d.s, str_len)]
     ELSE [isdict |-> TRUE, entries |-> Dict_nopre(d.entries, <<>>, str_len), s |-> <<>>]

\* prefixes, names (no "/" in a name: Transform._setattributes) and relative
\* path strings
Prefixes == {<<>>, <<"p">>, <<"p", "/">>, <<"p", "/", "q">>}
Names == {<<>>, <<"n">>, <<"n", "m">>}
PathStrs == {<<>>, <<"a">>, <<"b">>, <<"a", "b">>, <<"a", "/", "b">>}
Keys == {StrKey(str) : str \in PathStrs}
          \cup {TupleKey(str, x) : str \in PathStrs, x \in 1 .. 2}
          \cup {ObjKey(x) : x \in 1 .. 2}
DictVals == 1 .. 2
MaxKeys == 2       \* most entries of a boundary dictionary

DistinctKeys(entries) ==
  \A i, j \in 1 .. Len(entries) : entries[i][1] = entries[j][1] => i = j
Dicts == {[isdict |-> TRUE, entries |-> e, s |-> <<>>] :
            e \in {q \in SeqsUpTo(Keys \X DictVals, MaxKeys) : DistinctKeys(q)}}
PathArgs == {[isdict |-> FALSE, entries |-> <<>>, s |-> str] : str \in PathStrs}

TankIdle ==
  /\ tank_pc = "idle"
  /\ tank_slots = NoSlots
  /\ tank_tubes = NoTubes
  /\ tank_back = NoSlots

PrefixInit ==
  /\ TankIdle
  /\ TfIdle
  /\ pre_pc = "start"
  /\ \E prefix \in Prefixes, name \in Names, d \in Dicts \cup PathArgs :
       pre_in = [prefix |-> prefix, name |-> name, d |-> d]
  /\ pre_out = NoPre
  /\ pre_back = NoPre

PrefixPre ==
  /\ pre_pc = "start"
  /\ pre_out' = Transform_pre(pre_in.d, pre_in.prefix, pre_in.name)
  /\ pre_pc' = "prefixed"
  /\ UNCHANGED <<pre_in, pre_back, tankVars, tfVars, callVars>>

PrefixNopre ==
  /\ pre_pc = "prefixed"
  /\ pre_back' = Transform_nopre(pre_out, pre_in.prefix, pre_in.name)
  /\ pre_pc' = "stripped"
  /\ UNCHANGED <<pre_in, pre_out, tankVars, tfVars, callVars>>

PrefixNext == PrefixPre \/ PrefixNopre

SpecPrefix == PrefixInit /\ [][PrefixNext]_vars

(***************************************************************************)
(* NumTransform (transforms/num_transform.py) on Transform                 *)
(* (transforms/transform.py).                                              *)
(*                                                                         *)
(* Elements of the input arrays are small naturals or NaN.  A statistic is *)
(* kept exactly: the number [nan, root, num, den] is num/den, or           *)
(* sqrt(num)/den when root, or NaN.                                        *)
(***************************************************************************)
NaN == -1
IsNaN(x) == x = NaN

NumInt(x) == [nan |-> FALSE, root |-> FALSE, num |-> x, den |-> 1]
NumNaN == [nan |-> TRUE, root |-> FALSE, num |-> 0, den |-> 1]
\* q == 0
NumIsZero(q) == ~q.nan /\ q.num = 0
\* p == q for the integers min and max (False when either is NaN)
NumEq(p, q) == ~p.nan /\ ~q.nan /\ p.num * q.den = q.num * p.den /\ p.root = q.root
\* p - q and p + 1 for integers
NumSub(p, q) == IF p.nan \/ q.nan THEN NumNaN ELSE NumInt(p.num - q.num)
NumInc(p) == IF p.nan THEN NumNaN ELSE NumInt(p.num + 1)

\* a statistic: None, a numpy scalar (a reduction to zero dimensions) or a
\* 1-D array
StatNone == [kind |-> "None", v |-> <<>>]
StatScalar(q) == [kind |-> "scalar", v |-> <<q>>]
StatArray(qs) == [kind |-> "array", v |-> qs]

NotNaN(g) == SelectSeq(g, LAMBDA x : ~IsNaN(x))
RECURSIVE SumSq(_)
SumSq(ss) == IF ss = <<>> THEN 0 ELSE Head(ss) * Head(ss) + SumSq(Tail(ss))
SetMin(S) == CHOOSE m \in S : \A x \in S : m <= x
Range(ss) == {ss[i] : i \in 1 .. Len(ss)}

\* np.nanmean, np.nanstd, np.nanmin, np.nanmax of one group of elements
nanmean1(g) ==
  LET v == NotNaN(g)
  IN IF v = <<>> THEN NumNaN
     ELSE [nan |-> FALSE, root |-> FALSE, num |-> SumSeq(v), den |-> Len(v)]
nanstd1(g) ==
  LET v == NotNaN(g)
  IN IF v = <<>> THEN NumNaN
     ELSE [nan |-> FALSE, root |-> TRUE,
           num |-> Len(v) * SumSq(v) - SumSeq(v) * SumSeq(v), den |-> Len(v)]
nanmin1(g) ==
  LET v == NotNaN(g) IN IF v = <<>> THEN NumNaN ELSE NumInt(SetMin(Range(v)))
nanmax1(g) ==
  LET v == NotNaN(g) IN IF v = <<>> THEN NumNaN ELSE NumInt(SetMax(Range(v)))

\* column j of a 2-D array
Column(a, j) == [i \in 1 .. a.shape[1] |-> a.data[(i - 1) * a.shape[2] + j]]

\* the reduction f of array over axis norm_axis (None or 0, written "None", "0"):
\* a scalar unless a dimension is left
Reduce(f(_), array, norm_axis) ==
  IF norm_axis = "None" \/ NDim(array) = 1 THEN StatScalar(f(array.data))
  ELSE StatArray([j \in 1 .. array.shape[2] |-> f(Column(array, j))])

\* the transform object; waterwork is the identity of the cached Waterwork, 0
\* for None
attribute_dict ==
  [norm_mode |-> "None", norm_axis |-> "None", fill_nan_func |-> "None", name |-> <<>>,
   mean |-> StatNone, std |-> StatNone, min |-> StatNone, max |-> StatNone,
   dtype |-> "float64", input_dtype |-> "None"]

NoTransform == [live |-> FALSE, attrs |-> attribute_dict, waterwork |-> 0]

\* Transform.__init__(save_dict=save_dict): _from_save_dict, then waterwork = None
Transform_init_save_dict(save_dict) ==
  [live |-> TRUE,
   attrs |-> [key \in DOMAIN attribute_dict |-> save_dict[key]],
   waterwork |-> 0]

\* Transform.__init__(**kwargs): NumTransform._setattributes hands
\* attribute_dict to Transform._setattributes(self, **kwargs) as a positional
\* argument, which raises TypeError before any attribute is set
Transform_init_kwargs(kwargs) ==
  [raised |-> "TypeError", self |-> NoTransform]

calc_global_values(self, array) ==
  LET a0 == [self.attrs EXCEPT !.input_dtype = "float64"]
  IN IF self.attrs.norm_mode = "mean_std"
       THEN LET mean == Reduce(nanmean1, array, self.attrs.norm_axis)
                std == Reduce(nanstd1, array, self.attrs.norm_axis)
                a1 == [a0 EXCEPT !.mean = mean, !.std = std]
            IN IF \E i \in 1 .. Len(std.v) : NumIsZero(std.v[i])
                 THEN IF std.kind = "scalar"
                        \* a numpy scalar does not support item assignment
                        THEN [raised |-> "TypeError", self |-> [self EXCEPT !.attrs = a1]]
                      ELSE [raised |-> "",
                            self |-> [self EXCEPT !.attrs = [a1 EXCEPT !.std =
                              StatArray([i \in 1 .. Len(std.v) |->
                                IF NumIsZero(std.v[i]) THEN NumInt(1) ELSE std.v[i]])]]]
               ELSE [raised |-> "", self |-> [self EXCEPT !.attrs = a1]]
     ELSE IF self.attrs.norm_mode = "min_max"
       THEN LET min == Reduce(nanmin1, array, self.attrs.norm_axis)
                max == Reduce(nanmax1, array, self.attrs.norm_axis)
                a1 == [a0 EXCEPT !.min = min, !.max = max]
            IN IF \E i \in 1 .. Len(min.v) : NumEq(min.v[i], max.v[i])
                 THEN IF max.kind = "scalar"
                        \* item assignment to a numpy scalar, as for std
                        THEN [raised |-> "TypeError", self |-> [self EXCEPT !.attrs = a1]]
                      ELSE [raised |-> "",
                            self |-> [self EXCEPT !.attrs = [a1 EXCEPT !.max =
                              StatArray([i \in 1 .. Len(max.v) |->
                                IF NumEq(max.v[i], min.v[i]) THEN NumInc(max.v[i])
                                ELSE max.v[i]])]]]
               ELSE [raised |-> "", self |-> [self EXCEPT !.attrs = a1]]
     ELSE [raised |-> "", self |-> [self EXCEPT !.attrs = a0]]

(***************************************************************************)
(* The Waterwork engine (waterworks/, tanks/tank_defs.py), as far as       *)
(* NumTransform uses it: tanks are added to the Waterwork that is open,    *)
(* an unnamed tank is named by its type and a zero-based counter of that   *)
(* type within the Waterwork.                                              *)
(***************************************************************************)
Waterwork_new(name) == [name |-> name, placeholders |-> <<>>, tanks |-> <<>>]

AutoId(type, n) == [base |-> type, auto |-> TRUE, n |-> n]
NamedId(name) == [base |-> name, auto |-> FALSE, n |-> 0]

\* the number of unnamed tanks of this type that ww holds
TypeCount(ww, type) ==
  Cardinality({i \in 1 .. Len(ww.tanks) : ww.tanks[i].type = type /\ ww.tanks[i].id.auto})

\* the next identifier of an unnamed tank of this type in ww
NextAutoId(ww, type) == AutoId(type, TypeCount(ww, type))

AddPlaceholder(ww, name) == [ww EXCEPT !.placeholders = Append(@, name)]
AddTank(ww, type, id, literal) ==
  [ww EXCEPT !.tanks = Append(@, [type |-> type, id |-> id, literal |-> literal])]

\* self.max - self.min
StatSub(p, q) ==
  [kind |-> p.kind, v |-> [i \in 1 .. Len(p.v) |-> NumSub(p.v[i], q.v[i])]]

\* NumTransform.define_waterwork, run inside the open Waterwork ww
define_waterwork(self, ww) ==
  LET w1 == AddPlaceholder(ww, "input")
      w2 == AddTank(w1, "IsNan", NextAutoId(w1, "IsNan"), StatNone)
      w3 == AddPlaceholder(w2, "replace_with")
      w4 == AddTank(w3, "Replace", NamedId("rp"), StatNone)
  IN IF self.attrs.norm_mode = "mean_std"
       THEN LET w5 == AddTank(w4, "SubTyped", NextAutoId(w4, "SubTyped"), self.attrs.mean)
            IN AddTank(w5, "DivTyped", NextAutoId(w5, "DivTyped"), self.attrs.std)
     ELSE IF self.attrs.norm_mode = "min_max"
       THEN LET w5 == AddTank(w4, "SubTyped", NextAutoId(w4, "SubTyped"), self.attrs.min)
            IN AddTank(w5, "DivTyped", NextAutoId(w5, "DivTyped"),
                       StatSub(self.attrs.max, self.attrs.min))
     ELSE w4

\* mutant: the cached waterwork is not looked at
get_waterwork_always_build(self, recreate, ws) ==
  IF self.attrs.input_dtype = "None"
    THEN [raised |-> "AssertionError", self |-> self, heap |-> ws, ww |-> 0, defined |-> 0]
  ELSE LET ww == define_waterwork(self, Waterwork_new(self.attrs.name))
       IN [raised |-> "", self |-> [self EXCEPT !.waterwork = Len(ws) + 1],
           heap |-> Append(ws, ww), ww |-> Len(ws) + 1, defined |-> 1]

\* mutant: a rebuilt waterwork is defined inside the Waterwork it replaces
get_waterwork_same_scope(self, recreate, ws) ==
  IF self.attrs.input_dtype = "None"
    THEN [raised |-> "AssertionError", self |-> self, heap |-> ws, ww |-> 0, defined |-> 0]
  ELSE IF self.waterwork # 0 /\ ~recreate
    THEN [raised |-> "", self |-> self, heap |-> ws, ww |-> self.waterwork, defined |-> 0]
  ELSE LET scope == IF self.waterwork # 0 THEN ws[self.waterwork]
                    ELSE Waterwork_new(self.attrs.name)
           ww == define_waterwork(self, scope)
       IN [raised |-> "", self |-> [self EXCEPT !.waterwork = Len(ws) + 1],
           heap |-> Append(ws, ww), ww |-> Len(ws) + 1, defined |-> 1]

\* Transform.get_waterwork; ws holds the Waterwork objects built so far, a
\* Waterwork's identity is its position in ws
get_waterwork(self, recreate, ws) ==
  IF self.attrs.input_dtype = "None"
    THEN [raised |-> "AssertionError", self |-> self, heap |-> ws, ww |-> 0, defined |-> 0]
  ELSE IF self.waterwork # 0 /\ ~recreate
    THEN [raised |-> "", self |-> self, heap |-> ws, ww |-> self.waterwork, defined |-> 0]
  ELSE LET ww == define_waterwork(self, Waterwork_new(self.attrs.name))
       IN [raised |-> "", self |-> [self EXCEPT !.waterwork = Len(ws) + 1],
           heap |-> Append(ws, ww), ww |-> Len(ws) + 1, defined |-> 1]

\* the literal of tank number i of ww at flat position k of an array whose
\* last dimension is n long
Broadcast(stat, k, n) == IF stat.kind = "scalar" THEN stat.v[1] ELSE stat.v[((k - 1) % n) + 1]
LastDim(a) == a.shape[Len(a.shape)]
Fits(stat, a) == stat.kind = "scalar" \/ (stat.kind = "array" /\ Len(stat.v) = LastDim(a))

TankOfType(ww, type) == CHOOSE i \in 1 .. Len(ww.tanks) : ww.tanks[i].type = type
HasTank(ww, type) == \E i \in 1 .. Len(ww.tanks) : ww.tanks[i].type = type

\* the number of NaN among the first k elements
RECURSIVE NaNsBefore(_, _)
NaNsBefore(data, k) ==
  IF k = 0 THEN 0 ELSE NaNsBefore(data, k - 1) + (IF IsNaN(data[k]) THEN 1 ELSE 0)

\* Waterwork.pour({'input': input, 'replace_with': replace_with}): the taps
\* 'nans' (the mask of IsNan) and 'nums' (input with its NaN replaced, then
\* the literal of SubTyped subtracted and divided by the literal of DivTyped);
\* an element of nums is the term (x - sub) / div
Waterwork_pour(ww, input, replace_with) ==
  LET nans == [shape |-> input.shape,
               data |-> [k \in 1 .. Len(input.data) |-> IsNaN(input.data[k])]]
      replaced == [k \in 1 .. Len(input.data) |->
                     IF IsNaN(input.data[k])
                       THEN replace_with[NaNsBefore(input.data, k)]
                     ELSE input.data[k]]
      normed == HasTank(ww, "SubTyped")
      sub == IF normed THEN ww.tanks[TankOfType(ww, "SubTyped")].literal ELSE StatScalar(NumInt(0))
      div == IF normed THEN ww.tanks[TankOfType(ww, "DivTyped")].literal ELSE StatScalar(NumInt(1))
  IN IF ~Fits(sub, input) \/ ~Fits(div, input)
       THEN [raised |-> "ShapeMismatch", nums |-> EmptyArr, nans |-> EmptyArr]
     ELSE [raised |-> "",
           nums |-> [shape |-> input.shape,
                     data |-> [k \in 1 .. Len(input.data) |->
                                [x |-> replaced[k],
                                 sub |-> Broadcast(sub, k, LastDim(input)),
                                 div |-> Broadcast(div, k, LastDim(input))]]],
           nans |-> nans]

\* the default fill_nan_func: np.full(array[np.isnan(array)].shape, np.array(0))
fill_nan_zeros(array) == [k \in 1 .. NaNsBefore(array.data, Len(array.data)) |-> 0]

NoTaps == [poured |-> FALSE, input |-> EmptyArr, nums |-> EmptyArr, nans |-> EmptyArr]

\* NumTransform.pour(array)
NumTransform_pour(self, array, ws) ==
  LET g == get_waterwork(self, FALSE, ws)
  IN IF g.raised # ""
       THEN [raised |-> g.raised, self |-> g.self, heap |-> g.heap, ww |-> g.ww,
             defined |-> g.defined, taps |-> NoTaps]
     ELSE IF self.attrs.fill_nan_func = "None"
       \* self.fill_nan_func(array) with fill_nan_func None
       THEN [raised |-> "TypeError", self |-> g.self, heap |-> g.heap, ww |-> g.ww,
             defined |-> g.defined, taps |-> NoTaps]
     ELSE LET t == Waterwork_pour(g.heap[g.ww], array, fill_nan_zeros(array))
          IN [raised |-> t.raised, self |-> g.self, heap |-> g.heap, ww |-> g.ww,
              defined |-> g.defined,
              taps |-> IF t.raised = "" THEN [poured |-> TRUE, input |-> array,
                                              nums |-> t.nums, nans |-> t.nans]
                       ELSE NoTaps]

\* NumTransform.pump(nums, nans): building tap_dict calls self._name('rp'),
\* and neither NumTransform nor Transform has an attribute _name
NumTransform_pump(self, nums, nans, ws) ==
  LET g == get_waterwork(self, FALSE, ws)
  IN IF g.raised # ""
       THEN [raised |-> g.raised, self |-> g.self, heap |-> g.heap, ww |-> g.ww,
             defined |-> g.defined, array |-> EmptyArr]
     ELSE [raised |-> "AttributeError", self |-> g.self, heap |-> g.heap, ww |-> g.ww,
           defined |-> g.defined, array |-> EmptyArr]

(***************************************************************************)
(* Calls on one NumTransform.                                              *)
(***************************************************************************)
MaxBuilds == 2     \* most Waterwork objects built in one behaviour
MaxNumLen == 2     \* longest 1-D array handed to calc_global_values and pour

NoCall == [op |-> "none", recreate |-> FALSE, raised |-> "", ww |-> 0, array |-> EmptyArr]
Call(op, recreate, raised, ww, array) ==
  [op |-> op, recreate |-> recreate, raised |-> raised, ww |-> ww, array |-> array]

\* the save_dict of a transform that has not seen calc_global_values
SaveDicts(names) ==
  {[attribute_dict EXCEPT !.norm_mode = m, !.norm_axis = x, !.fill_nan_func = f, !.name = n] :
     m \in {"None", "mean_std", "min_max"}, x \in {"None", "0"},
     f \in {"None", "zeros"}, n \in names}

TfInitKwargs ==
  /\ ~tf.live
  /\ LET r == Transform_init_kwargs(<<>>)
     IN /\ tf' = r.self
        /\ last' = Call("init_kwargs", FALSE, r.raised, 0, EmptyArr)
  /\ UNCHANGED <<heap, taps, n_define, tankVars, preVars, callVars>>

TfInitSaveDict(names) ==
  /\ ~tf.live
  /\ \E sd \in SaveDicts(names) : tf' = Transform_init_save_dict(sd)
  /\ last' = Call("init_save_dict", FALSE, "", 0, EmptyArr)
  /\ UNCHANGED <<heap, taps, n_define, tankVars, preVars, callVars>>

TfCalc(arrays) ==
  /\ tf.live
  /\ \E array \in arrays :
       LET r == calc_global_values(tf, array)
       IN /\ tf' = r.self
          /\ last' = Call("calc_global_values", FALSE, r.raised, 0, array)
  /\ UNCHANGED <<heap, taps, n_define, tankVars, preVars, callVars>>

TfGetWaterwork ==
  /\ tf.live
  /\ \E recreate \in BOOLEAN :
       LET r == get_waterwork(tf, recreate, heap)
       IN /\ Len(r.heap) <= MaxBuilds
          /\ tf' = r.self
          /\ heap' = r.heap
          /\ n_define' = n_define + r.defined
          /\ last' = Call("get_waterwork", recreate, r.raised, r.ww, EmptyArr)
  /\ UNCHANGED <<taps, tankVars, preVars, callVars>>

TfPour(arrays) ==
  /\ tf.live
  /\ \E array \in arrays :
       LET r == NumTransform_pour(tf, array, heap)
       IN /\ Len(r.heap) <= MaxBuilds
          /\ tf' = r.self
          /\ heap' = r.heap
          /\ n_define' = n_define + r.defined
          /\ taps' = IF r.raised = "" THEN r.taps ELSE taps
          /\ last' = Call("pour", FALSE, r.raised, r.ww, array)
  /\ UNCHANGED <<tankVars, preVars, callVars>>

TfPump ==
  /\ tf.live
  /\ LET r == NumTransform_pump(tf, taps.nums, taps.nans, heap)
     IN /\ Len(r.heap) <= MaxBuilds
        /\ tf' = r.self
        /\ heap' = r.heap
        /\ n_define' = n_define + r.defined
        /\ last' = Call("pump", FALSE, r.raised, r.ww, r.array)
  /\ UNCHANGED <<taps, tankVars, preVars, callVars>>

\* the life of a transform: construction, then calls in any order
LifeNames == {<<>>, <<"n">>}
LifeArrays == {Arr1(<<0, 0>>), Arr1(<<0, 1>>), Arr2(2, 2, <<0, 1, 0, 0>>)}

TransformInit ==
  /\ TankIdle
  /\ PreIdle
  /\ callers = <<>>
  /\ tf = NoTransform
  /\ heap = <<>>
  /\ last = NoCall
  /\ taps = NoTaps
  /\ n_define = 0

TransformNext ==
  \/ TfInitKwargs
  \/ TfInitSaveDict(LifeNames)
  \/ TfCalc(LifeArrays)
  \/ TfGetWaterwork
  \/ TfPour(LifeArrays)
  \/ TfPump

SpecTransform == TransformInit /\ [][TransformNext]_vars

\* the numbers: calc_global_values on one array, pour of another, pump of
\* what was poured
NumElems == {0, 1, NaN}
NumArrays ==
  {Arr1(d) : d \in SeqsUpTo(NumElems, MaxNumLen) \ {<<>>}}
    \cup {Arr2(2, 2, d) : d \in {<<0, 1, 0, 0>>, <<0, 1, 1, 0>>, <<1, 1, 1, 1>>,
                                 <<NaN, 1, NaN, 0>>, <<0, NaN, 1, 1>>}}

NumInit ==
  /\ TankIdle
  /\ PreIdle
  /\ callers = <<>>
  /\ \E sd \in SaveDicts({<<>>}) : tf = Transform_init_save_dict(sd)
  /\ heap = <<>>
  /\ last = Call("init_save_dict", FALSE, "", 0, EmptyArr)
  /\ taps = NoTaps
  /\ n_define = 0

NumCalc == last.op = "init_save_dict" /\ TfCalc(NumArrays)
NumPour == last.op = "calc_global_values" /\ TfPour(NumArrays)
NumPump == last.op = "pour" /\ TfPump

NumNext == NumCalc \/ NumPour \/ NumPump

SpecNum == NumInit /\ [][NumNext]_vars

(***************************************************************************)
(* Two threads calling pour, then pump of what they poured, on one         *)
(* transform.  A call is three steps: the assertion and the look at the    *)
(* cached waterwork (get_waterwork, lines 63-66), the build of a waterwork *)
(* (lines 68-72) when none was cached, and the rest of pour or pump.       *)
(***************************************************************************)
Threads == 1 .. 2

NoLocals == [pc |-> "idle", op |-> "none", array |-> EmptyArr, ww |-> 0, raised |-> "",
             taps |-> NoTaps, ret |-> EmptyArr]

CallArrays == {Arr1(<<0, 1>>), Arr1(<<NaN, 1>>), Arr1(<<1, 0>>)}

\* a transform that calc_global_values has been run on
CalcedTransforms ==
  {calc_global_values(Transform_init_save_dict(sd), a).self :
     sd \in SaveDicts({<<>>}), a \in {Arr1(<<0, 1>>)}}

CallsInit ==
  /\ TankIdle
  /\ PreIdle
  /\ tf \in CalcedTransforms
  /\ heap = <<>>
  /\ last = NoCall
  /\ taps = NoTaps
  /\ n_define = 0
  /\ callers = [c \in Threads |-> NoLocals]

\* thread c calls pour(array)
CallPour(c) ==
  /\ callers[c].pc = "idle"
  /\ \E array \in CallArrays :
       callers' = [callers EXCEPT ![c] = [NoLocals EXCEPT !.pc = "check", !.op = "pour",
                                                          !.array = array]]
  /\ UNCHANGED <<tfVars, tankVars, preVars>>

\* thread c calls pump(nums, nans) with what its pour returned
CallPump(c) ==
  /\ callers[c].pc = "poured"
  /\ callers' = [callers EXCEPT ![c].pc = "check", ![c].op = "pump"]
  /\ UNCHANGED <<tfVars, tankVars, preVars>>

\* get_waterwork up to the return of the cached waterwork
CallCheck(c) ==
  /\ callers[c].pc = "check"
  /\ IF tf.attrs.input_dtype # "None" /\ tf.waterwork = 0
       THEN /\ callers' = [callers EXCEPT ![c].pc = "build"]
            /\ UNCHANGED <<tf, heap, n_define>>
     ELSE LET r == get_waterwork(tf, FALSE, heap)
          IN /\ callers' = [callers EXCEPT ![c].pc = IF r.raised = "" THEN "body" ELSE "done",
                                           ![c].raised = r.raised, ![c].ww = r.ww]
             /\ tf' = r.self
             /\ heap' = r.heap
             /\ n_define' = n_define + r.defined
  /\ UNCHANGED <<last, taps, tankVars, preVars>>

\* get_waterwork past the look at the cache: build, define, cache
CallBuild(c) ==
  /\ callers[c].pc = "build"
  /\ LET r == get_waterwork(tf, TRUE, heap)
     IN /\ callers' = [callers EXCEPT ![c].pc = "body", ![c].ww = r.ww]
        /\ tf' = r.self
        /\ heap' = r.heap
        /\ n_define' = n_define + r.defined
  /\ UNCHANGED <<last, taps, tankVars, preVars>>

\* the rest of pour or pump, with ww the waterwork get_waterwork returned
CallBody(c) ==
  /\ callers[c].pc = "body"
  /\ LET me == callers[c]
         self == [tf EXCEPT !.waterwork = me.ww]
     IN IF me.op = "pour"
          THEN LET r == NumTransform_pour(self, me.array, heap)
               IN callers' = [callers EXCEPT ![c].pc = IF r.raised = "" THEN "poured" ELSE "done",
                                             ![c].raised = r.raised, ![c].taps = r.taps]
        ELSE LET r == NumTransform_pump(self, me.taps.nums, me.taps.nans, heap)
             IN callers' = [callers EXCEPT ![c].pc = "done", ![c].raised = r.raised,
                                           ![c].ret = r.array]
  /\ UNCHANGED <<tfVars, tankVars, preVars>>

CallsNext ==
  \E c \in Threads :
    \/ CallPour(c)
    \/ CallPump(c)
    \/ CallCheck(c)
    \/ CallBuild(c)
    \/ CallBody(c)

SpecCalls == CallsInit /\ [][CallsNext]_vars

(***************************************************************************)
(* Claims about the Split tank.                                            *)
(***************************************************************************)
NonDecreasing(l) == \A i \in 1 .. Len(l) - 1 : l[i] <= l[i + 1]

\* a list of split indices valid along the axis: numpy's "1-D array of sorted
\* integers", each a position counted from the start of the axis
ValidSplit(s) ==
  /\ s.given
  /\ ValidAxis(s.a, s.axis)
  /\ s.indices.kind = "list"
  /\ NonDecreasing(s.indices.list)
  /\ \A i \in 1 .. Len(s.indices.list) : s.indices.list[i] >= 0

\* C1: for every array, valid axis and valid list of split indices, _pour
\* returns (never raises), _pump of the poured tubes returns slot 'a' equal to
\* the original array, shape and elements in order; with the empty index list
\* the poured target is exactly one part, the whole array.
C1_SplitRoundTrip ==
  ValidSplit(tank_slots) =>
    /\ tank_pc # "raised"
    /\ tank_pc = "pumped" => tank_back.a = tank_slots.a
    /\ (tank_pc \in {"poured", "pumped"} /\ tank_slots.indices.list = <<>>)
         => tank_tubes.target = <<tank_slots.a>>

\* a 2-D array split at two points along its second axis has been pumped back
C1_Witness ==
  /\ tank_pc = "pumped"
  /\ ValidSplit(tank_slots)
  /\ NDim(tank_slots.a) = 2
  /\ NormAxis(tank_slots.a, tank_slots.axis) = 1
  /\ tank_slots.indices.list = <<1, 2>>
  /\ Len(tank_tubes.target) = 3

\* C8: whenever _pour returns, its tubes 'indices' and 'axis' are the slot
\* values it was given; whenever _pump returns, its slots 'indices' and 'axis'
\* are the tube values it was given.
C8_SplitPassThrough ==
  /\ (tank_slots.given /\ tank_pc \in {"poured", "pumped"})
       => /\ tank_tubes.indices = tank_slots.indices
          /\ tank_tubes.axis = tank_slots.axis
  /\ tank_pc = "pumped"
       => /\ tank_back.indices = tank_tubes.indices
          /\ tank_back.axis = tank_tubes.axis

\* a pour and pump with a negative axis and a non-empty index list
C8_Witness ==
  /\ tank_pc = "pumped"
  /\ tank_slots.given
  /\ tank_slots.axis = -1
  /\ tank_slots.indices.list = <<0, 2>>
  /\ tank_back.axis = -1
  /\ tank_back.indices.list = <<0, 2>>

(***************************************************************************)
(* Claims about the Max tank.                                              *)
(***************************************************************************)
\* target is the maximum of a over ax: it has the shape of a without the
\* reduced axes, bounds every element of a from above at that element's place,
\* and each of its elements occurs in a at that place
IsMaxOver(target, a, ax) ==
  /\ target.shape = SelectDims(a.shape, KeptDims(a, ax), 1)
  /\ Len(target.data) = Prod(target.shape)
  /\ \A k \in 1 .. Len(a.data) : a.data[k] <= target.data[OutIndex(a, ax, k - 1) + 1]
  /\ \A j \in 1 .. Len(target.data) :
       \E k \in 1 .. Len(a.data) :
         OutIndex(a, ax, k - 1) = j - 1 /\ a.data[k] = target.data[j]

SameDict(d, e) ==
  /\ d.isdict = e.isdict
  /\ d.s = e.s
  /\ {d.entries[i] : i \in 1 .. Len(d.entries)} = {e.entries[i] : i \in 1 .. Len(e.entries)}

ObjEntries(d) == {d.entries[i] : i \in {j \in 1 .. Len(d.entries) : d.entries[j][1].kind = "obj"}}

\* C6: for every prefix, every name (the empty one too) and every boundary
\* dictionary or path string d, _nopre(_pre(d, prefix), prefix) is d, and the
\* entries whose keys are neither strings nor string-headed tuples are the
\* same in d, in _pre's result and in _nopre's.
C6_PrefixRoundTrip ==
  /\ pre_pc = "stripped" => SameDict(pre_back, pre_in.d)
  /\ pre_pc \in {"prefixed", "stripped"} => ObjEntries(pre_out) = ObjEntries(pre_in.d)
  /\ pre_pc = "stripped" => ObjEntries(pre_back) = ObjEntries(pre_in.d)

\* the round trip where it does hold: the name is not empty, or the prefix is
C6_RoundTripNamed ==
  (pre_pc = "stripped" /\ (pre_in.name # <<>> \/ pre_in.prefix = <<>>))
    => SameDict(pre_back, pre_in.d)

(***************************************************************************)
(* Claims about Transform and NumTransform.                                *)
(***************************************************************************)
GraphCalls == {"get_waterwork", "pour", "pump"}

\* C3: after calc_global_values, pump of the 'nums' and 'nans' that pour
\* returned for an array returns that array.
C3_CompositeIdentity ==
  (last.op = "pump" /\ taps.poured)
    => (last.raised = "" /\ last.array = taps.input)

\* C4: in every interleaving of the calls of two threads on one transform,
\* a pour that returns gives the taps of its own input (the mask of its NaN,
\* its own elements where they are not NaN) and a pump returns the array its
\* own taps were poured from.
C4_CallsIndependent ==
  \A c \in Threads :
    /\ callers[c].taps.poured =>
         /\ callers[c].taps.input = callers[c].array
         /\ callers[c].taps.nans.shape = callers[c].array.shape
         /\ \A k \in 1 .. Len(callers[c].array.data) :
              /\ callers[c].taps.nans.data[k] = IsNaN(callers[c].array.data[k])
              /\ ~IsNaN(callers[c].array.data[k])
                   => callers[c].taps.nums.data[k].x = callers[c].array.data[k]
    /\ (callers[c].op = "pump" /\ callers[c].pc = "done")
         => /\ callers[c].raised = ""
            /\ callers[c].ret = callers[c].array

\* the step is a call that got past the assertion of get_waterwork
PassedAssert == last'.op \in GraphCalls /\ last'.raised # "AssertionError"
Recreating == last'.op = "get_waterwork" /\ last'.recreate

\* C5: a call without recreate=True on a transform whose waterwork is built
\* uses that waterwork and does not run define_waterwork; on a transform
\* whose waterwork is not built it runs define_waterwork once and caches what
\* it built; get_waterwork(recreate=True) builds a new waterwork and caches
\* it; nothing else changes the cached waterwork or runs define_waterwork.
C5_BuiltOnce ==
  [][ /\ (PassedAssert /\ ~Recreating /\ tf.waterwork # 0)
           => /\ tf'.waterwork = tf.waterwork
              /\ last'.ww = tf.waterwork
              /\ n_define' = n_define
      /\ (PassedAssert /\ ~Recreating /\ tf.waterwork = 0)
           => /\ tf'.waterwork # 0
              /\ last'.ww = tf'.waterwork
              /\ n_define' = n_define + 1
      /\ (PassedAssert /\ Recreating)
           => /\ tf'.waterwork \notin {0, tf.waterwork}
              /\ last'.ww = tf'.waterwork
              /\ n_define' = n_define + 1
      /\ ~PassedAssert
           => /\ tf'.waterwork = tf.waterwork
              /\ n_define' = n_define
      /\ heap' # heap => SubSeq(heap', 1, Len(heap)) = heap ]_vars

\* a pump used the waterwork that an earlier call built, after a pour did too
C5_Witness ==
  /\ last.op = "pump"
  /\ last.ww = 1
  /\ tf.waterwork = 1
  /\ n_define = 1
  /\ taps.poured

TankIds(ww) == [i \in 1 .. Len(ww.tanks) |-> ww.tanks[i].id]
Resolve(ww, id) == {i \in 1 .. Len(ww.tanks) : ww.tanks[i].id = id}
TanksOfType(ww, type) == {i \in 1 .. Len(ww.tanks) : ww.tanks[i].type = type}

C9_OrderingPrecondition ==
  /\ last.op = "init_kwargs" => (last.raised = "" /\ tf.live)
  /\ (tf.live /\ tf.attrs.input_dtype = "None" /\ last.op \in GraphCalls)
       => (last.raised = "AssertionError" /\ tf.waterwork = 0)
  /\ (tf.attrs.input_dtype # "None" /\ last.op = "get_waterwork")
       => last.raised # "AssertionError"

\* the part of C9 that does not depend on how the transform was built
C9_AssertionGuard ==
  /\ (tf.live /\ tf.attrs.input_dtype = "None" /\ last.op \in GraphCalls)
       => (last.raised = "AssertionError" /\ tf.waterwork = 0)
  /\ (tf.attrs.input_dtype # "None" /\ last.op = "get_waterwork")
       => last.raised # "AssertionError"

NoZero(stat) == \A i \in 1 .. Len(stat.v) : ~NumIsZero(stat.v[i])

\* C10: once calc_global_values has run, no element of std (mean_std), or of
\* max - min (min_max), is zero, nor is any element of a divisor held by a
\* waterwork; in min_max mode min is the minimum found and max the maximum
\* found, plus 1 where the two were equal.
C10_NonZeroDivisor ==
  /\ (tf.attrs.input_dtype # "None" /\ tf.attrs.norm_mode = "mean_std")
       => NoZero(tf.attrs.std)
  /\ (tf.attrs.input_dtype # "None" /\ tf.attrs.norm_mode = "min_max")
       => NoZero(StatSub(tf.attrs.max, tf.attrs.min))
  /\ \A w \in 1 .. Len(heap) :
       \A i \in TanksOfType(heap[w], "DivTyped") : NoZero(heap[w].tanks[i].literal)
  /\ (last.op = "calc_global_values" /\ tf.attrs.norm_mode = "min_max")
       => LET lo == Reduce(nanmin1, last.array, tf.attrs.norm_axis)
              hi == Reduce(nanmax1, last.array, tf.attrs.norm_axis)
          IN /\ tf.attrs.min = lo
             /\ \A i \in 1 .. Len(hi.v) :
                  tf.attrs.max.v[i] = IF NumEq(lo.v[i], hi.v[i]) THEN NumInc(hi.v[i])
                                      ELSE hi.v[i]

\* the same for statistics that are arrays (norm_axis 0 on a 2-D array)
C10_ArrayStatistics ==
  /\ (tf.attrs.input_dtype # "None" /\ tf.attrs.norm_mode = "mean_std"
        /\ tf.attrs.std.kind = "array")
       => NoZero(tf.attrs.std)
  /\ (tf.attrs.input_dtype # "None" /\ tf.attrs.norm_mode = "min_max"
        /\ tf.attrs.max.kind = "array")
       => NoZero(StatSub(tf.attrs.max, tf.attrs.min))

====
